---- MODULE Spec2Model ----
(***************************************************************************)
(* A model of SteamCrypto (steam-crypto, src/index.ts): the CRC32 table    *)
(* and checksum, session-key generation, the HMAC-IV payload cipher and    *)
(* the RSA credential encryption, as calls made by a caller.               *)
(*                                                                         *)
(* A Buffer is a sequence of bytes (0..255).  A JavaScript number that     *)
(* holds a 32-bit quantity is the pair <<hi, lo>> standing for             *)
(* hi * 65536 + lo with lo in 0..65535: hi is in -32768..32767 for an      *)
(* int32 (the result of ^, & and ~) and in 0..65535 for a uint32 (the      *)
(* result of >>>), so the sign of a value is the sign of hi.               *)
(***************************************************************************)
EXTENDS Integers, Sequences, FiniteSets, TLC

VARIABLES crc32Table, pc, op, args, ret, sent, test

vars == <<crc32Table, pc, op, args, ret, sent, test>>

(***************************************************************************)
(* Bounds of the model.                                                    *)
(***************************************************************************)
\* longest plaintext handed to encrypt
MaxLen == 17
\* number of distinct plaintext contents per length
NumData == 2
\* number of distinct values drawn by Crypto.randomBytes
NumRand == 2
\* longest input of crc32 drawn from CrcBytes
MaxCrcLen == 3
\* longest nonce handed to genSessionKey
MaxNonceLen == 56
\* largest RSA modulus, in bytes, handed to rsaEncrypt
MaxModBytes == 13
\* longest password, in characters, handed to rsaEncrypt
MaxPwLen == 1

\* the number of calls that the callers sharing the module make in all
MaxCalls == 3

(***************************************************************************)
(* Bit operations of JavaScript on 32-bit values.                          *)
(***************************************************************************)
\* 2^n, for 0 <= n <= 16
Pow2(n) ==
  <<1, 2, 4, 8, 16, 32, 64, 128, 256, 512, 1024, 2048, 4096, 8192, 16384,
    32768, 65536>>[n + 1]

\* bit k of a
Bit(a, k) == (a \div Pow2(k)) % 2

\* exclusive or and conjunction of two 4-bit values, tabulated
XorNibble ==
  [a \in 0..15 |-> [b \in 0..15 |->
     ((Bit(a, 0) + Bit(b, 0)) % 2) + 2 * ((Bit(a, 1) + Bit(b, 1)) % 2)
     + 4 * ((Bit(a, 2) + Bit(b, 2)) % 2) + 8 * ((Bit(a, 3) + Bit(b, 3)) % 2)]]

AndNibble ==
  [a \in 0..15 |-> [b \in 0..15 |->
     (Bit(a, 0) * Bit(b, 0)) + 2 * (Bit(a, 1) * Bit(b, 1))
     + 4 * (Bit(a, 2) * Bit(b, 2)) + 8 * (Bit(a, 3) * Bit(b, 3))]]

\* exclusive or of two bytes
Xor8(a, b) ==
  XorNibble[a % 16][b % 16] + 16 * XorNibble[a \div 16][b \div 16]

\* conjunction of two bytes
And8(a, b) ==
  AndNibble[a % 16][b % 16] + 16 * AndNibble[a \div 16][b \div 16]

\* exclusive or and conjunction of two 16-bit values
Xor16(a, b) == Xor8(a % 256, b % 256) + 256 * Xor8(a \div 256, b \div 256)

And16(a, b) == And8(a % 256, b % 256) + 256 * And8(a \div 256, b \div 256)

\* TRUE, whatever v is.  A loop that tests it on the value it hands to its
\* next iteration has TLC compute that value before the iteration starts.
Computed(v) == v = v

\* ToUint32 of ECMAScript: the value modulo 2^32
ToUint32(x) == <<IF x[1] < 0 THEN x[1] + 65536 ELSE x[1], x[2]>>

\* ToInt32 of ECMAScript: the value modulo 2^32, in -2^31 .. 2^31 - 1
ToInt32(x) == <<IF x[1] >= 32768 THEN x[1] - 65536 ELSE x[1], x[2]>>

\* a ^ b
JsXor(a, b) ==
  ToInt32(<<Xor16(ToUint32(a)[1], ToUint32(b)[1]), Xor16(a[2], b[2])>>)

\* a & b
JsAnd(a, b) ==
  ToInt32(<<And16(ToUint32(a)[1], ToUint32(b)[1]), And16(a[2], b[2])>>)

\* ~a
JsNot(a) == <<-(ToInt32(a)[1]) - 1, 65535 - a[2]>>

\* a >>> n, for 0 <= n <= 16
JsUShr(a, n) ==
  LET u == ToUint32(a)
  IN  <<u[1] \div Pow2(n), (u[2] \div Pow2(n)) + (u[1] % Pow2(n)) * Pow2(16 - n)>>

\* the number n, 0 <= n < 65536
Num(n) == <<0, n>>

\* the literal 0xedb88320
Polynomial == <<60856, 33568>>

(***************************************************************************)
(* crc32Table and crc32.                                                   *)
(***************************************************************************)
RECURSIVE TableLoop(_, _)
\* the body of the map callback: j iterations left, i the running value
TableLoop(i, j) ==
  IF j = 0 THEN i
  ELSE LET next == IF JsAnd(i, Num(1)) # Num(0)
                   THEN JsXor(Polynomial, JsUShr(i, 1))
                   ELSE JsUShr(i, 1)
       IN  IF Computed(next) THEN TableLoop(next, j - 1) ELSE next

\* one element of the Uint32Array: the callback's result, stored as a uint32
TableEntry(i) == ToUint32(JsUShr(TableLoop(Num(i), 8), 0))

\* new Uint32Array(256).map(...)
BuildTable == [i \in 0..255 |-> TableEntry(i)]

\* crc = crc32Table[(crc ^ buffer[i]) & 0xff] ^ (crc >>> 8)
Crc32StepKeepLow(table, crc, b) ==
  JsXor(table[JsAnd(JsXor(crc, Num(b)), Num(255))[2]], crc)

Crc32Step(table, crc, b) ==
  JsXor(table[JsAnd(JsXor(crc, Num(b)), Num(255))[2]], JsUShr(crc, 8))

RECURSIVE Crc32Loop(_, _, _, _)
Crc32Loop(table, crc, buffer, i) ==
  IF i > Len(buffer) THEN crc
  ELSE LET next == Crc32Step(table, crc, buffer[i])
       IN  IF Computed(next) THEN Crc32Loop(table, next, buffer, i + 1) ELSE next

\* a crc32 that returns ~crc as the signed 32-bit value that ~ yields
crc32Signed(table, buffer) ==
  JsNot(Crc32Loop(table, JsNot(Num(0)), buffer, 1))

\* SteamCrypto.crc32
crc32(table, buffer) ==
  JsUShr(JsNot(Crc32Loop(table, JsNot(Num(0)), buffer, 1)), 0)

(***************************************************************************)
(* Results of a call: a returned value or a thrown error.                  *)
(***************************************************************************)
Ok(v) == [kind |-> "ok", value |-> v]

Throw(code) == [kind |-> "error", code |-> code]

\* thrown by Cipher.final / Decipher.final on an incomplete or missing last block
WrongFinalBlockLength == "ERR_OSSL_WRONG_FINAL_BLOCK_LENGTH"
\* thrown by Decipher.final on invalid block padding
BadDecrypt == "ERR_OSSL_BAD_DECRYPT"
\* thrown by createCipheriv / createDecipheriv on an IV of the wrong length
InvalidIV == "ERR_CRYPTO_INVALID_IV"
\* thrown by publicEncrypt on a message longer than the padding allows
DataTooLarge == "ERR_OSSL_RSA_DATA_TOO_LARGE_FOR_KEY_SIZE"

(***************************************************************************)
(* node:crypto as SteamCrypto uses it.  AES-256 is a keyed permutation of  *)
(* 16-byte blocks and HMAC-SHA1 a keyed function to 20 bytes; the model    *)
(* keeps their sizes, the key dependence and the invertibility of the      *)
(* block cipher, with a small permutation and a small hash in their place. *)
(***************************************************************************)
\* the AES block size in bytes
BlockSize == 16

Min(a, b) == IF a < b THEN a ELSE b

\* the byte substitution of the block cipher and its inverse
SubByte(x) == (x * 7 + 99) % 256

InvSubByte(y) == ((y + 157) * 183) % 256

\* the byte transposition of the block cipher and its inverse
ShiftPos(i) == ((i * 5) % 16) + 1

InvShiftPos(j) == LET i == ((j - 1) * 13) % 16 IN IF i = 0 THEN 16 ELSE i

\* one block through the cipher, key of 32 bytes
AesEncryptBlock(key, blk) ==
  [i \in 1..BlockSize |->
     SubByte((Xor8(blk[ShiftPos(i)], key[i]) + key[16 + i]) % 256)]

\* one block back through the cipher
AesDecryptBlock(key, blk) ==
  [j \in 1..BlockSize |->
     LET i == InvShiftPos(j)
     IN  Xor8((InvSubByte(blk[i]) + 256 - key[16 + i]) % 256, key[i])]

Block(buf, b) == SubSeq(buf, BlockSize * (b - 1) + 1, BlockSize * b)

XorBlock(a, b) == [i \in 1..BlockSize |-> Xor8(a[i], b[i])]

RECURSIVE EcbBlocks(_, _, _, _)
\* the complete blocks of buf, each through the cipher in direction dir
EcbBlocks(key, buf, b, dir) ==
  IF BlockSize * b > Len(buf) THEN <<>>
  ELSE (IF dir = "encrypt" THEN AesEncryptBlock(key, Block(buf, b))
        ELSE AesDecryptBlock(key, Block(buf, b)))
       \o EcbBlocks(key, buf, b + 1, dir)

\* update() of an aes-256-ecb cipher with setAutoPadding(false): the complete
\* blocks come out, an incomplete last block stays buffered
EcbUpdate(key, buf, dir) == EcbBlocks(key, buf, 1, dir)

\* final() of a cipher with setAutoPadding(false) succeeds iff nothing is buffered
FinalNoPaddingOk(buf) == Len(buf) % BlockSize = 0

RECURSIVE CbcEncryptBlocks(_, _, _, _)
CbcEncryptBlocks(key, prev, buf, b) ==
  IF BlockSize * b > Len(buf) THEN <<>>
  ELSE LET c == AesEncryptBlock(key, XorBlock(Block(buf, b), prev))
       IN  c \o CbcEncryptBlocks(key, c, buf, b + 1)

RECURSIVE CbcDecryptBlocksNoChain(_, _, _, _)
CbcDecryptBlocksNoChain(key, prev, buf, b) ==
  IF BlockSize * b > Len(buf) THEN <<>>
  ELSE XorBlock(AesDecryptBlock(key, Block(buf, b)), prev)
       \o CbcDecryptBlocksNoChain(key, prev, buf, b + 1)

RECURSIVE CbcDecryptBlocks(_, _, _, _)
CbcDecryptBlocks(key, prev, buf, b) ==
  IF BlockSize * b > Len(buf) THEN <<>>
  ELSE LET c == Block(buf, b)
       IN  XorBlock(AesDecryptBlock(key, c), prev)
           \o CbcDecryptBlocks(key, c, buf, b + 1)

\* the block padding a cipher adds in final(): n bytes of value n, 1 <= n <= 16
Pkcs7PadAlignedUnpadded(data) ==
  LET n == (BlockSize - (Len(data) % BlockSize)) % BlockSize
  IN  data \o [i \in 1..n |-> n]

Pkcs7Pad(data) ==
  LET n == BlockSize - (Len(data) % BlockSize)
  IN  data \o [i \in 1..n |-> n]

\* the padding check of Decipher.final(): the last byte n is in 1..16 and the
\* last n bytes all hold n
PaddingOkLastByteOnly(buf) ==
  LET n == buf[Len(buf)]
  IN  n >= 1 /\ n <= BlockSize

PaddingOk(buf) ==
  LET n == buf[Len(buf)]
  IN  /\ n >= 1
      /\ n <= BlockSize
      /\ \A i \in 1..n : buf[Len(buf) - i + 1] = n

Unpad(buf) == SubSeq(buf, 1, Len(buf) - buf[Len(buf)])

\* createCipheriv("aes-256-cbc", key, iv), update(data) and final()
CbcEncrypt(key, iv, data) ==
  IF Len(iv) # BlockSize THEN Throw(InvalidIV)
  ELSE Ok(CbcEncryptBlocks(key, iv, Pkcs7Pad(data), 1))

\* createDecipheriv("aes-256-cbc", key, iv), update(data) and final()
CbcDecrypt(key, iv, data) ==
  IF Len(iv) # BlockSize THEN Throw(InvalidIV)
  ELSE IF Len(data) = 0 \/ Len(data) % BlockSize # 0
       THEN Throw(WrongFinalBlockLength)
       ELSE LET plain == CbcDecryptBlocks(key, iv, data, 1)
            IN  IF PaddingOk(plain) THEN Ok(Unpad(plain)) ELSE Throw(BadDecrypt)

RECURSIVE HashFold(_, _, _)
HashFold(acc, msg, i) ==
  IF i > Len(msg) THEN acc
  ELSE LET next == (acc * 33 + msg[i] + i) % 256
       IN  IF Computed(next) THEN HashFold(next, msg, i + 1) ELSE next

\* createHmac("sha1", secret), update(msg), digest(): 20 bytes
HmacSha1(secret, msg) ==
  [j \in 1..20 |->
     HashFold((secret[((j - 1) % Len(secret)) + 1] + 7 * j + Len(msg)) % 256, msg, 1)]

(***************************************************************************)
(* encrypt, decrypt and generateHmacIV.                                    *)
(***************************************************************************)
\* generateHmacIV, with random the result of Crypto.randomBytes(3)
generateHmacIVNoRandom(data, key, random) ==
  SubSeq(HmacSha1(SubSeq(key, 1, 16), data), 1, 13) \o <<0, 0, 0>>

\* a generateHmacIV that feeds the HMAC other bytes than the three it appends
generateHmacIVTwoDraws(data, key, random) ==
  SubSeq(HmacSha1(SubSeq(key, 1, 16), <<0, 0, 0>> \o data), 1, 13) \o random

generateHmacIV(data, key, random) ==
  SubSeq(HmacSha1(SubSeq(key, 1, 16), random \o data), 1, 13) \o random

\* SteamCrypto.encrypt, with random the bytes drawn inside generateHmacIV
encryptDataOnly(data, key, random) ==
  CbcEncrypt(key, generateHmacIV(data, key, random), data)

encrypt(data, key, random) ==
  LET IV == generateHmacIV(data, key, random)
      encryptedIV == EcbUpdate(key, IV, "encrypt")
      encryptedData == CbcEncrypt(key, IV, data)
  IN  IF ~FinalNoPaddingOk(IV) THEN Throw(WrongFinalBlockLength)
      ELSE IF encryptedData.kind = "error" THEN encryptedData
      ELSE Ok(encryptedIV \o encryptedData.value)

\* a decrypt that recomputes the HMAC over what it decrypted and rejects the
\* frame when the first 13 bytes of the IV are not those of the digest
decryptVerifyingHmac(data, key) ==
  LET head == SubSeq(data, 1, Min(16, Len(data)))
      IV == EcbUpdate(key, head, "decrypt")
      decryptedData == CbcDecrypt(key, IV, SubSeq(data, 17, Len(data)))
  IN  IF ~FinalNoPaddingOk(head) THEN Throw(WrongFinalBlockLength)
      ELSE IF decryptedData.kind = "error" THEN decryptedData
      ELSE IF SubSeq(IV, 1, 13) #
                SubSeq(HmacSha1(SubSeq(key, 1, 16),
                                SubSeq(IV, 14, 16) \o decryptedData.value), 1, 13)
           THEN Throw("HMAC_MISMATCH")
           ELSE decryptedData

\* SteamCrypto.decrypt
decrypt(data, key) ==
  LET head == SubSeq(data, 1, Min(16, Len(data)))
      IV == EcbUpdate(key, head, "decrypt")
  IN  IF ~FinalNoPaddingOk(head) THEN Throw(WrongFinalBlockLength)
      ELSE CbcDecrypt(key, IV, SubSeq(data, 17, Len(data)))

(***************************************************************************)
(* RSA public-key encryption of node:crypto.  The ciphertext is as long as *)
(* the modulus and depends on the message and the random padding; the      *)
(* padding bounds the message length.                                      *)
(***************************************************************************)
\* the size in bytes of the modulus of SteamPublicKey (a 1024-bit key)
SteamPublicKeyBytes == 128

\* bytes of the modulus that OAEP with SHA-1, the default padding of
\* publicEncrypt, takes: two digests and two bytes
OaepOverhead == 42

\* bytes of the modulus that RSA_PKCS1_PADDING takes
Pkcs1Overhead == 11

\* the ciphertext of msg under a modulus of k bytes with random padding seed
RsaCiphertextUnpadded(k, msg, seed) ==
  [i \in 1..(k - 1) |->
     ((IF Len(msg) = 0 THEN 0 ELSE msg[((i - 1) % Len(msg)) + 1] * 3)
      + seed[((i - 1) % Len(seed)) + 1] + i) % 256]

RsaCiphertext(k, msg, seed) ==
  [i \in 1..k |->
     ((IF Len(msg) = 0 THEN 0 ELSE msg[((i - 1) % Len(msg)) + 1] * 3)
      + seed[((i - 1) % Len(seed)) + 1] + i) % 256]

\* a publicEncrypt that cuts a message too long for the key down to what fits
publicEncryptTruncating(k, overhead, msg, seed) ==
  LET room == IF k > overhead THEN k - overhead ELSE 0
  IN  Ok(RsaCiphertext(k, SubSeq(msg, 1, Min(Len(msg), room)), seed))

\* publicEncrypt(key, msg) for a key of k bytes and a padding of the given overhead
publicEncrypt(k, overhead, msg, seed) ==
  IF Len(msg) > k - overhead THEN Throw(DataTooLarge)
  ELSE Ok(RsaCiphertext(k, msg, seed))

(***************************************************************************)
(* genSessionKey.                                                          *)
(***************************************************************************)
\* the number of bytes genSessionKey draws for the session key
SessionKeyBytes == 32

\* SteamCrypto.genSessionKey, with sessionKey the result of
\* Crypto.randomBytes(32) and seed the randomness of the padding
genSessionKey(nonce, sessionKey, seed) ==
  LET encryptedSessionKey ==
        publicEncrypt(SteamPublicKeyBytes, OaepOverhead, sessionKey \o nonce, seed)
  IN  IF encryptedSessionKey.kind = "error" THEN encryptedSessionKey
      ELSE Ok([plain |-> sessionKey, encrypted |-> encryptedSessionKey.value])

(***************************************************************************)
(* rsaEncrypt.  A string is the sequence of its characters' code points;   *)
(* a base64 text is the sequence of its characters' places in the base64   *)
(* alphabet, 64 for "=".                                                   *)
(***************************************************************************)
\* the value of a hexadecimal digit, -1 for any other character
HexVal(c) ==
  IF c >= 48 /\ c <= 57 THEN c - 48
  ELSE IF c >= 97 /\ c <= 102 THEN c - 87
  ELSE IF c >= 65 /\ c <= 70 THEN c - 55
  ELSE -1

RECURSIVE HexDecodeFrom(_, _)
\* the bytes of the pairs of digits from pair i on, up to the first pair that
\* holds another character; a last character without a partner is left out
HexDecodeFrom(str, i) ==
  IF 2 * i > Len(str) THEN <<>>
  ELSE IF HexVal(str[2 * i - 1]) < 0 \/ HexVal(str[2 * i]) < 0 THEN <<>>
  ELSE <<16 * HexVal(str[2 * i - 1]) + HexVal(str[2 * i])>>
       \o HexDecodeFrom(str, i + 1)

\* Buffer.from(str, "hex")
HexDecode(str) == HexDecodeFrom(str, 1)

RECURSIVE Base64EncodeFrom(_, _)
Base64EncodeFrom(buf, i) ==
  IF i > Len(buf) THEN <<>>
  ELSE LET b1 == buf[i]
           b2 == IF i + 1 <= Len(buf) THEN buf[i + 1] ELSE 0
           b3 == IF i + 2 <= Len(buf) THEN buf[i + 2] ELSE 0
       IN  << b1 \div 4,
              (b1 % 4) * 16 + (b2 \div 16),
              IF i + 1 <= Len(buf) THEN (b2 % 16) * 4 + (b3 \div 64) ELSE 64,
              IF i + 2 <= Len(buf) THEN b3 % 64 ELSE 64 >>
           \o Base64EncodeFrom(buf, i + 3)

\* buf.toString("base64")
Base64Encode(buf) == Base64EncodeFrom(buf, 1)

RECURSIVE Base64DecodeFrom(_, _)
Base64DecodeFrom(txt, i) ==
  IF i + 3 > Len(txt) THEN <<>>
  ELSE LET c1 == txt[i]
           c2 == txt[i + 1]
           c3 == txt[i + 2]
           c4 == txt[i + 3]
       IN  <<c1 * 4 + (c2 \div 16)>>
           \o (IF c3 = 64 THEN <<>> ELSE <<(c2 % 16) * 16 + (c3 \div 4)>>)
           \o (IF c3 = 64 \/ c4 = 64 THEN <<>> ELSE <<(c3 % 4) * 64 + c4>>)
           \o Base64DecodeFrom(txt, i + 4)

\* the bytes createPublicKey reads from a member of the JWK
Base64Decode(txt) == Base64DecodeFrom(txt, 1)

RECURSIVE StripLeadingZeros(_)
StripLeadingZeros(buf) ==
  IF Len(buf) > 0 /\ buf[1] = 0 THEN StripLeadingZeros(Tail(buf)) ELSE buf

\* the UTF-8 bytes of one code point
Utf8Char(c) ==
  IF c < 128 THEN <<c>>
  ELSE IF c < 2048 THEN <<192 + (c \div 64), 128 + (c % 64)>>
  ELSE IF c < 65536
       THEN <<224 + (c \div 4096), 128 + ((c \div 64) % 64), 128 + (c % 64)>>
       ELSE <<240 + (c \div 262144), 128 + ((c \div 4096) % 64),
              128 + ((c \div 64) % 64), 128 + (c % 64)>>

RECURSIVE Utf8(_)
\* Buffer.from(password)
Utf8(str) == IF str = <<>> THEN <<>> ELSE Utf8Char(Head(str)) \o Utf8(Tail(str))

\* createPublicKey({key: {kty: "RSA", n, e}, format: "jwk"}): the modulus and
\* the exponent as the key holds them
createPublicKey(n, e) ==
  [n |-> StripLeadingZeros(Base64Decode(n)), e |-> StripLeadingZeros(Base64Decode(e))]

\* SteamCrypto.rsaEncrypt, with seed the randomness of the padding
rsaEncrypt(password, publicKeyMod, publicKeyExp, seed) ==
  LET publicKey == createPublicKey(Base64Encode(HexDecode(publicKeyMod)),
                                   Base64Encode(HexDecode(publicKeyExp)))
      encrypted == publicEncrypt(Len(publicKey.n), Pkcs1Overhead,
                                 Utf8(password), seed)
  IN  IF encrypted.kind = "error" THEN encrypted
      ELSE Ok([text |-> Base64Encode(encrypted.value), key |-> publicKey])

(***************************************************************************)
(* Inputs.                                                                 *)
(***************************************************************************)
\* the bytes the bounded crc32 inputs are made of
CrcBytes == {0, 1, 49, 128, 255}

RECURSIVE SeqsUpTo(_, _)
SeqsUpTo(S, n) ==
  IF n = 0 THEN {<<>>}
  ELSE LET shorter == SeqsUpTo(S, n - 1)
       IN  shorter \cup {Append(s, x) : s \in shorter, x \in S}

\* ASCII "123456789"
Digits123456789 == <<49, 50, 51, 52, 53, 54, 55, 56, 57>>

\* [0x00, 0x01, 0x02, 0xff, 0xfe, 0xfd]
BinaryData == <<0, 1, 2, 255, 254, 253>>

\* ASCII "test"
TestText == <<116, 101, 115, 116>>

CrcInputs ==
  SeqsUpTo(CrcBytes, MaxCrcLen) \cup {Digits123456789, BinaryData, TestText}

\* what Crypto.randomBytes(n) can return
RandomOf(n, s) == [i \in 1..n |-> (s * 59 + i * (17 + 2 * s)) % 256]

RandomBytes(n) == {RandomOf(n, s) : s \in 1..NumRand}

\* the session keys: what genSessionKey draws as sessionKey
Keys == RandomBytes(32)

DataOf(n, s) == [i \in 1..n |-> (s * 101 + i * 13) % 256]

Plaintexts == {DataOf(n, s) : n \in 0..MaxLen, s \in 1..NumData}

\* the frame with the byte at position j changed
Flip(frame, j) == [frame EXCEPT ![j] = Xor8(frame[j], 1)]

\* what decrypt can receive for a frame that was sent: the frame, a prefix of
\* it, or the frame with one byte changed
Received(frame) ==
  {frame}
  \cup {SubSeq(frame, 1, n) : n \in 0..(Len(frame) - 1)}
  \cup {Flip(frame, j) : j \in 1..Len(frame)}

NonceOf(n, s) == [i \in 1..n |-> (s * 29 + i * 7) % 256]

Nonces == {NonceOf(n, s) : n \in 0..MaxNonceLen, s \in 1..NumData}

\* a modulus of n bytes as hexadecimal text in lower case
ModHex(n) ==
  [i \in 1..(2 * n) |->
     LET d == (i * 7 + n) % 16 IN IF d < 10 THEN 48 + d ELSE 87 + d]

\* a hexadecimal text, the text without its last character (odd length), and
\* the text with one character replaced by "g"
Malformations(str) ==
  {str, SubSeq(str, 1, Len(str) - 1)}
  \cup {[str EXCEPT ![j] = 103] : j \in 1..Len(str)}

Moduli ==
  UNION {Malformations(ModHex(n)) : n \in (MaxModBytes - 2)..MaxModBytes}

\* "010001", "01000" and "01000g"
Exponents == {<<48, 49, 48, 48, 48, 49>>, <<48, 49, 48, 48, 48>>,
              <<48, 49, 48, 48, 48, 103>>}

\* "a", e with acute accent (2 bytes of UTF-8) and a CJK character (3 bytes)
PasswordChars == {97, 233, 23494}

Passwords == SeqsUpTo(PasswordChars, MaxPwLen)

NoCall == [name |-> "none"]

(***************************************************************************)
(* The calls.                                                              *)
(***************************************************************************)
Init ==
  /\ crc32Table = BuildTable
  /\ pc = "ready"
  /\ op = "none"
  /\ args = NoCall
  /\ ret = NoCall
  /\ sent = NoCall
  /\ test = NoCall

\* SteamCrypto.crc32(buffer)
Crc32 ==
  /\ pc = "ready"
  /\ \E buffer \in CrcInputs :
       /\ op' = "crc32"
       /\ args' = [buffer |-> buffer]
       /\ ret' = [kind |-> "ok", value |-> crc32(crc32Table, buffer)]
  /\ pc' = "returned"
  /\ UNCHANGED <<crc32Table, sent, test>>

\* SteamCrypto.encrypt(data, key)
Encrypt ==
  /\ pc = "ready"
  /\ \E data \in Plaintexts, key \in Keys, random \in RandomBytes(3) :
       /\ op' = "encrypt"
       /\ args' = [data |-> data, key |-> key, random |-> random]
       /\ ret' = encrypt(data, key, random)
       /\ sent' = [data |-> data, key |-> key]
  /\ pc' = "returned"
  /\ UNCHANGED <<crc32Table, test>>

\* SteamCrypto.decrypt(data, key) of what arrives for the frame just produced
Decrypt ==
  /\ pc = "returned"
  /\ op = "encrypt"
  /\ ret.kind = "ok"
  /\ \E data \in Received(ret.value) :
       /\ op' = "decrypt"
       /\ args' = [data |-> data, key |-> sent.key, frame |-> ret.value]
       /\ ret' = decrypt(data, sent.key)
  /\ pc' = "returned"
  /\ UNCHANGED <<crc32Table, sent, test>>

\* SteamCrypto.genSessionKey(nonce)
GenSessionKey ==
  /\ pc = "ready"
  /\ \E nonce \in Nonces, sessionKey \in RandomBytes(SessionKeyBytes),
        seed \in RandomBytes(20) :
       /\ op' = "genSessionKey"
       /\ args' = [nonce |-> nonce]
       /\ ret' = genSessionKey(nonce, sessionKey, seed)
  /\ pc' = "returned"
  /\ UNCHANGED <<crc32Table, sent, test>>

\* SteamCrypto.rsaEncrypt(password, publicKeyMod, publicKeyExp)
RsaEncrypt ==
  /\ pc = "ready"
  /\ \E password \in Passwords, publicKeyMod \in Moduli,
        publicKeyExp \in Exponents, seed \in RandomBytes(8) :
       /\ op' = "rsaEncrypt"
       /\ args' = [password |-> password, publicKeyMod |-> publicKeyMod,
                   publicKeyExp |-> publicKeyExp]
       /\ ret' = rsaEncrypt(password, publicKeyMod, publicKeyExp, seed)
  /\ pc' = "returned"
  /\ UNCHANGED <<crc32Table, sent, test>>

\* the caller takes the result and is ready for its next call
Return ==
  /\ pc = "returned"
  /\ pc' = "ready"
  /\ op' = "none"
  /\ args' = NoCall
  /\ ret' = NoCall
  /\ sent' = NoCall
  /\ UNCHANGED <<crc32Table, test>>

Next ==
  \/ GenSessionKey
  \/ Crc32
  \/ RsaEncrypt
  \/ Encrypt
  \/ Decrypt
  \/ Return

Spec == Init /\ [][Next]_vars

(***************************************************************************)
(* The caller that encrypts the same data twice under the same key and     *)
(* decrypts both frames.                                                   *)
(***************************************************************************)
InitTwice ==
  /\ crc32Table = BuildTable
  /\ pc = "ready"
  /\ op = "none"
  /\ args = NoCall
  /\ ret = NoCall
  /\ sent = NoCall
  /\ \E originalData \in Plaintexts, key \in Keys :
       test = [step |-> "start", originalData |-> originalData, key |-> key,
               random1 |-> <<>>, random2 |-> <<>>,
               encrypted1 |-> NoCall, encrypted2 |-> NoCall,
               decrypted1 |-> NoCall, decrypted2 |-> NoCall]

\* encrypted1 = SteamCrypto.encrypt(originalData, sessionKey.plain)
TwiceEncrypt1 ==
  /\ test.step = "start"
  /\ \E random \in RandomBytes(3) :
       test' = [test EXCEPT !.step = "encrypted1",
                            !.random1 = random,
                            !.encrypted1 = encrypt(test.originalData, test.key, random)]
  /\ UNCHANGED <<crc32Table, pc, op, args, ret, sent>>

\* encrypted2 = SteamCrypto.encrypt(originalData, sessionKey.plain)
TwiceEncrypt2 ==
  /\ test.step = "encrypted1"
  /\ test.encrypted1.kind = "ok"
  /\ \E random \in RandomBytes(3) :
       test' = [test EXCEPT !.step = "encrypted2",
                            !.random2 = random,
                            !.encrypted2 = encrypt(test.originalData, test.key, random)]
  /\ UNCHANGED <<crc32Table, pc, op, args, ret, sent>>

\* decrypted1 = SteamCrypto.decrypt(encrypted1, sessionKey.plain)
TwiceDecrypt1 ==
  /\ test.step = "encrypted2"
  /\ test.encrypted2.kind = "ok"
  /\ test' = [test EXCEPT !.step = "decrypted1",
                          !.decrypted1 = decrypt(test.encrypted1.value, test.key)]
  /\ UNCHANGED <<crc32Table, pc, op, args, ret, sent>>

\* decrypted2 = SteamCrypto.decrypt(encrypted2, sessionKey.plain)
TwiceDecrypt2 ==
  /\ test.step = "decrypted1"
  /\ test.decrypted1.kind = "ok"
  /\ test' = [test EXCEPT !.step = "done",
                          !.decrypted2 = decrypt(test.encrypted2.value, test.key)]
  /\ UNCHANGED <<crc32Table, pc, op, args, ret, sent>>

NextTwice ==
  \/ TwiceEncrypt1
  \/ TwiceEncrypt2
  \/ TwiceDecrypt1
  \/ TwiceDecrypt2

SpecTwice == InitTwice /\ [][NextTwice]_vars

(***************************************************************************)
(* Callers that share the module: each call is synchronous and runs to its *)
(* return before another caller's call starts; the calls of the callers    *)
(* interleave in any order.  test holds the number of calls made and, for  *)
(* each caller, its last call.                                             *)
(***************************************************************************)
Tasks == {1, 2}

TaskBuffers == {BinaryData, TestText}

TaskData == {DataOf(n, 1) : n \in {BlockSize, BlockSize + 1}}

\* "a" and one CJK character (3 bytes of UTF-8)
TaskPasswords == {<<97>>, <<23494>>}

TaskNonces == {NonceOf(16, 1), NonceOf(MaxNonceLen, 1)}

InitTasks ==
  /\ crc32Table = BuildTable
  /\ pc = "ready"
  /\ op = "none"
  /\ args = NoCall
  /\ ret = NoCall
  /\ sent = NoCall
  /\ test = [calls |-> 0,
             task |-> [t \in Tasks |->
                         [op |-> "none", args |-> NoCall, ret |-> NoCall, at |-> 0]]]

\* caller t has made the call name(a) and it returned r
Completes(t, name, a, r) ==
  test' = [calls |-> test.calls + 1,
           task |-> [test.task EXCEPT
                       ![t] = [op |-> name, args |-> a, ret |-> r,
                               at |-> test.calls + 1]]]

\* a crc32 that keeps its result in the first entry of the table
TaskCrc32WritingTable(t) ==
  /\ test.calls < MaxCalls
  /\ \E buffer \in TaskBuffers :
       /\ Completes(t, "crc32", [buffer |-> buffer],
                    Ok(crc32(crc32Table, buffer)))
       /\ crc32Table' = [crc32Table EXCEPT ![0] = crc32(crc32Table, buffer)]
  /\ UNCHANGED <<pc, op, args, ret, sent>>

\* SteamCrypto.crc32(buffer) called by t
TaskCrc32(t) ==
  /\ test.calls < MaxCalls
  /\ \E buffer \in TaskBuffers :
       Completes(t, "crc32", [buffer |-> buffer], Ok(crc32(crc32Table, buffer)))
  /\ UNCHANGED <<crc32Table, pc, op, args, ret, sent>>

\* SteamCrypto.encrypt(data, key) called by t
TaskEncrypt(t) ==
  /\ test.calls < MaxCalls
  /\ \E data \in TaskData, random \in RandomBytes(3) :
       LET key == RandomOf(32, 1)
       IN  Completes(t, "encrypt",
                     [data |-> data, key |-> key, random |-> random],
                     encrypt(data, key, random))
  /\ UNCHANGED <<crc32Table, pc, op, args, ret, sent>>

\* SteamCrypto.decrypt(data, key) called by t for the frame it encrypted, as
\* sent or with its last byte changed
TaskDecrypt(t) ==
  /\ test.calls < MaxCalls
  /\ test.task[t].op = "encrypt"
  /\ test.task[t].ret.kind = "ok"
  /\ LET frame == test.task[t].ret.value
          key == test.task[t].args.key
     IN  \E data \in {frame, Flip(frame, Len(frame))} :
           Completes(t, "decrypt",
                     [data |-> data, key |-> key, sent |-> test.task[t].args.data,
                      sentAt |-> test.task[t].at],
                     decrypt(data, key))
  /\ UNCHANGED <<crc32Table, pc, op, args, ret, sent>>

\* SteamCrypto.genSessionKey(nonce) called by t
TaskGenSessionKey(t) ==
  /\ test.calls < MaxCalls
  /\ \E nonce \in TaskNonces :
       LET sessionKey == RandomOf(SessionKeyBytes, 1)
           seed == RandomOf(20, 1)
       IN  Completes(t, "genSessionKey",
                     [nonce |-> nonce, sessionKey |-> sessionKey, seed |-> seed],
                     genSessionKey(nonce, sessionKey, seed))
  /\ UNCHANGED <<crc32Table, pc, op, args, ret, sent>>

\* SteamCrypto.rsaEncrypt(password, publicKeyMod, publicKeyExp) called by t
TaskRsaEncrypt(t) ==
  /\ test.calls < MaxCalls
  /\ \E password \in TaskPasswords :
       LET publicKeyMod == ModHex(Pkcs1Overhead + 2)
           publicKeyExp == <<48, 49, 48, 48, 48, 49>>
           seed == RandomOf(8, 1)
       IN  Completes(t, "rsaEncrypt",
                     [password |-> password, publicKeyMod |-> publicKeyMod,
                      publicKeyExp |-> publicKeyExp, seed |-> seed],
                     rsaEncrypt(password, publicKeyMod, publicKeyExp, seed))
  /\ UNCHANGED <<crc32Table, pc, op, args, ret, sent>>

NextTasks ==
  \E t \in Tasks :
    \/ TaskCrc32(t)
    \/ TaskEncrypt(t)
    \/ TaskDecrypt(t)
    \/ TaskGenSessionKey(t)
    \/ TaskRsaEncrypt(t)

SpecTasks == InitTasks /\ [][NextTasks]_vars

(***************************************************************************)
(* C2: crc32 is the reference reflected CRC-32.                            *)
(***************************************************************************)
RECURSIVE RefBits(_, _)
\* eight shift steps of the bitwise reference on the unsigned value c
RefBits(c, n) ==
  IF n = 0 THEN c
  ELSE LET half == <<c[1] \div 2, (c[2] \div 2) + (c[1] % 2) * 32768>>
           next == IF c[2] % 2 = 1
                   THEN <<Xor16(half[1], 60856), Xor16(half[2], 33568)>>
                   ELSE half
       IN  IF Computed(next) THEN RefBits(next, n - 1) ELSE next

RECURSIVE RefLoop(_, _, _)
RefLoop(c, bytes, i) ==
  IF i > Len(bytes) THEN c
  ELSE LET next == RefBits(<<c[1], Xor16(c[2], bytes[i])>>, 8)
       IN  IF Computed(next) THEN RefLoop(next, bytes, i + 1) ELSE next

\* seed 0xFFFFFFFF, final complement
RefCrc32(bytes) ==
  LET c == RefLoop(<<65535, 65535>>, bytes, 1)
  IN  <<65535 - c[1], 65535 - c[2]>>

\* the table of the reference: the 8-step value of every index
RefTable == [i \in 0..255 |-> RefBits(Num(i), 8)]

\* C2: every crc32 result equals the bit-by-bit reference CRC-32 of its input,
\* every table entry is the reference's 8-step value of its index, the empty
\* input gives 0 and "123456789" gives 0xCBF43926.
C2_Crc32IsReference ==
  /\ crc32Table = RefTable
  /\ (pc = "returned" /\ op = "crc32") =>
       /\ ret.kind = "ok"
       /\ ret.value = RefCrc32(args.buffer)
       /\ (args.buffer = <<>> => ret.value = <<0, 0>>)
       /\ (args.buffer = Digits123456789 => ret.value = <<52212, 14630>>)

C2_Witness ==
  /\ pc = "returned"
  /\ op = "crc32"
  /\ args.buffer = Digits123456789
  /\ ret.value = <<52212, 14630>>

(***************************************************************************)
(* C1: decrypt inverts encrypt.                                            *)
(***************************************************************************)
\* C1: decrypt of the frame encrypt returned for plaintext p under key k, with
\* the same key, returns exactly p, whatever the length of p and the random
\* bytes drawn.
C1_RoundTrip ==
  (pc = "returned" /\ op = "decrypt" /\ args.data = args.frame) =>
    ret = Ok(sent.data)

C1_Witness ==
  /\ pc = "returned"
  /\ op = "decrypt"
  /\ args.data = args.frame
  /\ Len(sent.data) = 17
  /\ ret = Ok(sent.data)

(***************************************************************************)
(* C4, C5: the shape of the frame.                                         *)
(***************************************************************************)
\* C4: encrypt returns 16 bytes of encrypted IV (they decrypt, as one block,
\* to a value ending in the random bytes drawn) followed by N >= 1 blocks of
\* 16 bytes, so the length is a multiple of 16 and at least 32.
C4_FrameShape ==
  (pc = "returned" /\ op = "encrypt") =>
    /\ ret.kind = "ok"
    /\ Len(ret.value) % 16 = 0
    /\ Len(ret.value) >= 32
    /\ SubSeq(AesDecryptBlock(args.key, SubSeq(ret.value, 1, 16)), 14, 16)
         = args.random

C4_Witness ==
  /\ pc = "returned"
  /\ op = "encrypt"
  /\ args.data = <<>>
  /\ ret.kind = "ok"
  /\ Len(ret.value) = 32

\* C5 as stated: the ciphertext portion is as long as the plaintext length
\* rounded up to a multiple of 16 (a length that is a multiple stays as it is).
C5_RoundedUp ==
  (pc = "returned" /\ op = "encrypt") =>
    /\ ret.kind = "ok"
    /\ Len(ret.value) - 16 = ((Len(args.data) + 15) \div 16) * 16

\* C5 amended: the ciphertext portion is as long as the smallest multiple of 16
\* strictly greater than the plaintext length.
C5_NextBoundary ==
  (pc = "returned" /\ op = "encrypt") =>
    /\ ret.kind = "ok"
    /\ Len(ret.value) - 16 = ((Len(args.data) \div 16) + 1) * 16

C5_Witness ==
  /\ pc = "returned"
  /\ op = "encrypt"
  /\ Len(args.data) = 16
  /\ ret.kind = "ok"
  /\ Len(ret.value) - 16 = 32

(***************************************************************************)
(* C6, C7: the frames decrypt rejects.                                     *)
(***************************************************************************)
\* C6: decrypt of a frame shorter than 16 bytes fails with the error raised
\* for the length of the frame, and returns nothing.
C6_ShortFrameFramingError ==
  (pc = "returned" /\ op = "decrypt" /\ Len(args.data) < 16) =>
    /\ ret.kind = "error"
    /\ ret.code = WrongFinalBlockLength

\* a buffer that ends in n bytes of value n, for some n in 1..16
EndsInPadding(buf) ==
  \E n \in 1..16 :
    /\ n <= Len(buf)
    /\ \A i \in (Len(buf) - n + 1)..Len(buf) : buf[i] = n

\* the ciphertext portion of a frame of at least 16 bytes is no positive
\* number of blocks
BadCipherLength(frame) == Len(frame) = 16 \/ Len(frame) % 16 # 0

\* the CBC decryption of frame[16:] under the IV recovered from frame[0:16]
RecoveredPlain(frame, key) ==
  CbcDecryptBlocks(key, AesDecryptBlock(key, SubSeq(frame, 1, 16)),
                   SubSeq(frame, 17, Len(frame)), 1)

\* C7: decrypt of a frame of at least 16 bytes fails, returning no bytes, with
\* the final-block-length error when the ciphertext portion is no positive
\* multiple of 16 and with the bad-decrypt error when its CBC decryption does
\* not end in valid padding.
C7_RejectsBadLengthAndPadding ==
  (pc = "returned" /\ op = "decrypt" /\ Len(args.data) >= 16) =>
    /\ BadCipherLength(args.data) =>
         ret = Throw(WrongFinalBlockLength)
    /\ (~BadCipherLength(args.data)
        /\ ~EndsInPadding(RecoveredPlain(args.data, args.key))) =>
         ret = Throw(BadDecrypt)

C7_Witness ==
  /\ pc = "returned"
  /\ op = "decrypt"
  /\ Len(args.data) = 32
  /\ LET plain == RecoveredPlain(args.data, args.key)
     IN  plain[16] >= 2 /\ plain[16] <= 16 /\ ~EndsInPadding(plain)
  /\ ret = Throw(BadDecrypt)

(***************************************************************************)
(* C3, C10: genSessionKey.                                                 *)
(***************************************************************************)
\* C3: genSessionKey of a 16-byte nonce returns exactly the fields plain and
\* encrypted, plain of 32 bytes and encrypted of 128 bytes, whatever the nonce
\* holds and whatever is drawn.
C3_SessionKeyShape ==
  (pc = "returned" /\ op = "genSessionKey" /\ Len(args.nonce) = 16) =>
    /\ ret.kind = "ok"
    /\ DOMAIN ret.value = {"plain", "encrypted"}
    /\ Len(ret.value.plain) = 32
    /\ Len(ret.value.encrypted) = 128

C3_Witness ==
  /\ pc = "returned"
  /\ op = "genSessionKey"
  /\ Len(args.nonce) = 16
  /\ ret.kind = "ok"
  /\ Len(ret.value.plain) = 32
  /\ Len(ret.value.encrypted) = 128

\* C10: genSessionKey of a nonce that is not 16 bytes long fails and returns
\* no SessionKey.
C10_NonceLengthValidated ==
  (pc = "returned" /\ op = "genSessionKey" /\ Len(args.nonce) # 16) =>
    ret.kind = "error"

MalformedHex(str) ==
  Len(str) % 2 = 1 \/ \E j \in 1..Len(str) : HexVal(str[j]) < 0

\* C9: rsaEncrypt of a malformed modulus or exponent fails; it encrypts
\* nothing under a key cut short.
C9_MalformedHexRejected ==
  (/\ pc = "returned"
   /\ op = "rsaEncrypt"
   /\ (MalformedHex(args.publicKeyMod) \/ MalformedHex(args.publicKeyExp))) =>
    ret.kind = "error"

(***************************************************************************)
(* C11: rsaEncrypt and a password too long for the key.                    *)
(***************************************************************************)
\* the size in bytes of the modulus of the key that rsaEncrypt builds
ModulusBytes(publicKeyMod, publicKeyExp) ==
  Len(createPublicKey(Base64Encode(HexDecode(publicKeyMod)),
                      Base64Encode(HexDecode(publicKeyExp))).n)

\* the password of the call is longer, in bytes of UTF-8, than the modulus
\* less the 11 bytes of the PKCS#1 v1.5 padding
PasswordTooLarge ==
  Len(Utf8(args.password)) >
    ModulusBytes(args.publicKeyMod, args.publicKeyExp) - Pkcs1Overhead

\* C11: rsaEncrypt of a password longer than the modulus size less 11 bytes
\* throws the data-too-large error of publicEncrypt: the password is not cut
\* and no base64 text is returned.
C11_TooLargeRejected ==
  (pc = "returned" /\ op = "rsaEncrypt" /\ PasswordTooLarge) =>
    ret = Throw(DataTooLarge)

\* a password of one character that is one byte too long
\* for a well-formed modulus was rejected
C11_Witness ==
  /\ pc = "returned"
  /\ op = "rsaEncrypt"
  /\ ~MalformedHex(args.publicKeyMod)
  /\ ~MalformedHex(args.publicKeyExp)
  /\ Len(args.password) = 1
  /\ Len(Utf8(args.password)) =
       ModulusBytes(args.publicKeyMod, args.publicKeyExp) - Pkcs1Overhead + 1
  /\ ret = Throw(DataTooLarge)

(***************************************************************************)
(* C12: crc32 and the table hold unsigned 32-bit values.                   *)
(***************************************************************************)
\* x is an integer r with 0 <= r < 2^32
IsUint32(x) == x[1] \in 0..65535 /\ x[2] \in 0..65535

\* x is 2^31 or more: as a signed 32-bit value it would be negative
TopBitSet(x) == x[1] >= 32768

\* C12: every entry of crc32Table and every result of crc32 is an integer r
\* with 0 <= r < 2^32, never a negative signed 32-bit value.
C12_Unsigned ==
  /\ \A i \in 0..255 : IsUint32(crc32Table[i])
  /\ (pc = "returned" /\ op = "crc32") => IsUint32(ret.value)

\* crc32 of "test" returned 0xD87F7E0C, a value with the top bit set, and the
\* table holds an entry with the top bit set
C12_Witness ==
  /\ pc = "returned"
  /\ op = "crc32"
  /\ args.buffer = TestText
  /\ ret.value = <<55423, 32268>>
  /\ TopBitSet(ret.value)
  /\ \E i \in 0..255 : TopBitSet(crc32Table[i])

(***************************************************************************)
(* C13: the IV of encrypt.                                                 *)
(***************************************************************************)
\* digest[0:13] || r for digest = HMAC-SHA1(key[0:16], r || plaintext)
DerivedIV(data, key, r) ==
  SubSeq(HmacSha1(SubSeq(key, 1, 16), r \o data), 1, 13) \o r

\* the IV that a frame carries: its first 16 bytes decrypted as one block
CarriedIV(frame, key) == AesDecryptBlock(key, SubSeq(frame, 1, 16))

\* C13: the frame that encrypt returns starts with the ECB encryption, under
\* the whole key, of the 16 bytes digest[0:13] || r, r being the 3 bytes drawn
\* in the call and digest the HMAC-SHA1 keyed with key[0:16] over r followed by
\* the plaintext; the rest of the frame is the padded plaintext in CBC mode
\* under that same IV.
C13_IVDerivation ==
  (pc = "returned" /\ op = "encrypt") =>
    LET iv == DerivedIV(args.data, args.key, args.random)
        frame == ret.value
    IN  /\ ret.kind = "ok"
        /\ Len(iv) = 16
        /\ SubSeq(iv, 14, 16) = args.random
        /\ SubSeq(frame, 1, 16) = AesEncryptBlock(args.key, iv)
        /\ CarriedIV(frame, args.key) = iv
        /\ CbcDecryptBlocks(args.key, iv, SubSeq(frame, 17, Len(frame)), 1)
             = Pkcs7Pad(args.data)

\* encrypt returned a frame of more than one data block whose carried IV ends
\* in the 3 bytes drawn
C13_Witness ==
  /\ pc = "returned"
  /\ op = "encrypt"
  /\ ret.kind = "ok"
  /\ Len(args.data) > 16
  /\ Len(CarriedIV(ret.value, args.key)) = 16
  /\ SubSeq(CarriedIV(ret.value, args.key), 14, 16) = args.random

(***************************************************************************)
(* C14: the table is never written; calls share no state.                  *)
(***************************************************************************)
\* what a call returns when it is the only call made since the module was
\* initialised, for the same arguments and the same random draws
AloneResult(call) ==
  CASE call.op = "crc32" -> Ok(crc32(BuildTable, call.args.buffer))
    [] call.op = "encrypt" ->
         encrypt(call.args.data, call.args.key, call.args.random)
    [] call.op = "decrypt" -> decrypt(call.args.data, call.args.key)
    [] call.op = "genSessionKey" ->
         genSessionKey(call.args.nonce, call.args.sessionKey, call.args.seed)
    [] call.op = "rsaEncrypt" ->
         rsaEncrypt(call.args.password, call.args.publicKeyMod,
                    call.args.publicKeyExp, call.args.seed)
    [] OTHER -> NoCall

\* C14: whatever calls the callers have made and in whatever order, the table
\* is the one computed at module initialisation, and each caller's call has
\* returned what it returns when run alone with the same random draws.
C14_NoSharedState ==
  /\ crc32Table = BuildTable
  /\ \A t \in Tasks : test.task[t].ret = AloneResult(test.task[t])

\* caller 2 computed a crc32 between caller 1's encrypt and caller 1's decrypt
\* of that frame, which returned the plaintext
C14_Witness ==
  /\ test.task[1].op = "decrypt"
  /\ test.task[2].op = "crc32"
  /\ test.task[1].args.sentAt < test.task[2].at
  /\ test.task[2].at < test.task[1].at
  /\ test.task[1].ret = Ok(test.task[1].args.sent)
  /\ test.task[2].ret.kind = "ok"

(***************************************************************************)
(* C15: decrypt does not verify the HMAC that the IV carries.              *)
(***************************************************************************)
\* the first 13 bytes of the IV carried by the frame are the first 13 bytes of
\* the HMAC-SHA1, keyed with key[0:16], of the IV's last 3 bytes followed by
\* plain
HmacMatches(frame, key, plain) ==
  LET iv == CarriedIV(frame, key)
  IN  SubSeq(iv, 1, 13) =
        SubSeq(HmacSha1(SubSeq(key, 1, 16), SubSeq(iv, 14, 16) \o plain), 1, 13)

\* the frame is 16 bytes of IV and one or more blocks whose CBC decryption
\* under the recovered IV ends in valid padding
WellPadded(frame, key) ==
  /\ Len(frame) >= 32
  /\ Len(frame) % 16 = 0
  /\ EndsInPadding(RecoveredPlain(frame, key))

\* C15: decrypt of a frame of 16 + 16k bytes, k >= 1, whose CBC decryption
\* under the recovered IV ends in valid padding returns the bytes before the
\* padding, whether or not the IV matches the HMAC of those bytes; decrypt
\* rejects every other frame and no frame besides.
C15_HmacNotVerified ==
  (pc = "returned" /\ op = "decrypt") =>
    IF WellPadded(args.data, args.key)
    THEN LET plain == RecoveredPlain(args.data, args.key)
         IN  ret = Ok(SubSeq(plain, 1, Len(plain) - plain[Len(plain)]))
    ELSE ret.kind = "error"

\* decrypt returned bytes other than those sent, for a frame whose IV does
\* not match the HMAC of the bytes returned
C15_Witness ==
  /\ pc = "returned"
  /\ op = "decrypt"
  /\ ret.kind = "ok"
  /\ ret.value # sent.data
  /\ Len(ret.value) > 0
  /\ ~HmacMatches(args.data, args.key, ret.value)

====
